---- MODULE Spec2Model ----
(***************************************************************************)
(* hub-recovery: the recovery run of src/main.rs (state file, backup,      *)
(* peer connection, force-close, monitoring loop) over any sequence of     *)
(* processes, and the periodic blocking tasks of                           *)
(* src/periodic_blocking_task.rs and src/node_tasks.                       *)
(***************************************************************************)
EXTENDS Integers, Sequences, FiniteSets, TLC

(* ----------------------------- bounds --------------------------------- *)

\* longest channel list of a backup
MaxChannels == 2
\* longest balance list the node returns
MaxBalances == 2
\* largest amount of one balance entry
MaxAmount == 1
\* most events queued in the node
MaxEvents == 2
\* longest text that is encrypted into a backup file
MaxPlain == 2

Peers == {"p1", "p2"}
ChanIds == {"a", "b"}

(* --------------------------- data model -------------------------------- *)

\* scb.rs ChannelBackup: the fields the run reads
ChannelBackup == [peer_id : Peers, channel_id : ChanIds]

\* scb.rs StaticChannelBackup.channels: any list a backup file can hold
Backups == UNION {[1..n -> ChannelBackup] : n \in 0..MaxChannels}

\* state.rs ChannelState
ChannelState == {"Pending", "ForceCloseInitiated"}

\* state.rs State::new: by_peer is an empty map
StateNew == [p \in {} |-> [c \in {} |-> "Pending"]]

\* state.rs State::is_empty
is_empty(s) == DOMAIN s = {}

\* mutant: any channel of the state counts as pending
has_any_channel(s) == \E p \in DOMAIN s : DOMAIN s[p] # {}

\* state.rs State::has_pending_channels
has_pending_channels(s) ==
    \E p \in DOMAIN s : \E c \in DOMAIN s[p] : s[p][c] = "Pending"

\* state.rs State::get_all_channel_ids
get_all_channel_ids(s) == UNION {DOMAIN s[p] : p \in DOMAIN s}

\* state.rs State::get_channel_state ("None" is Option::None)
get_channel_state(s, peer, channel_id) ==
    IF peer \in DOMAIN s /\ channel_id \in DOMAIN s[peer]
    THEN s[peer][channel_id]
    ELSE "None"

\* state.rs State::set_channel_state: entry(peer).or_insert_with(new).insert
set_channel_state(s, peer, channel_id, v) ==
    LET old == IF peer \in DOMAIN s THEN s[peer] ELSE [c \in {} |-> "Pending"]
        new == [c \in DOMAIN old \cup {channel_id} |->
                   IF c = channel_id THEN v ELSE old[c]]
    IN  [p \in DOMAIN s \cup {peer} |-> IF p = peer THEN new ELSE s[p]]

\* scb.rs StaticChannelBackup::channel_ids
channel_ids(b) == {b[i].channel_id : i \in 1..Len(b)}

\* main.rs 209-211: one Pending entry per channel of the backup, in order
RECURSIVE InitPending(_, _, _)
InitPending(s, b, i) ==
    IF i > Len(b) THEN s
    ELSE InitPending(set_channel_state(s, b[i].peer_id, b[i].channel_id, "Pending"),
                     b, i + 1)

\* mutant: every channel of the backup goes to ForceCloseInitiated, its
\* peer connected or not
RECURSIVE UpdateEveryChannel(_, _, _, _)
UpdateEveryChannel(s, b, connected, i) ==
    IF i > Len(b) THEN s
    ELSE UpdateEveryChannel(
             set_channel_state(s, b[i].peer_id, b[i].channel_id,
                               "ForceCloseInitiated"),
             b, connected, i + 1)

\* main.rs 326-339: channels of connected peers go Pending -> ForceCloseInitiated
RECURSIVE UpdateConnected(_, _, _, _)
UpdateConnected(s, b, connected, i) ==
    IF i > Len(b) THEN s
    ELSE LET ch == b[i]
             cur == get_channel_state(s, ch.peer_id, ch.channel_id)
             \* unwrap_or(ChannelState::Pending)
             eff == IF cur = "None" THEN "Pending" ELSE cur
         IN  UpdateConnected(
                 IF ch.peer_id \in connected /\ eff = "Pending"
                 THEN set_channel_state(s, ch.peer_id, ch.channel_id,
                                        "ForceCloseInitiated")
                 ELSE s,
                 b, connected, i + 1)

(* ------------------------------ state ---------------------------------- *)

VARIABLES
    stateFile,        \* hub-recovery.state on disk: [kind, by_peer]
    ldk,              \* ./ldk_data on disk: [exists, monitors]
    lastRun,          \* the process that ended last: [initDone, scb]
    pc,               \* position of the process in main / run
    state,            \* run's `state` (State.by_peer)
    first_run,        \* run's `first_run`
    scb,              \* run's `scb.channels`
    idx,              \* position of the connect loop in scb.channels
    connected_peers,  \* run's `connected_peers`
    failed_peers,     \* run's `failed_peers`
    sigint,           \* a Ctrl-C message is in the mpsc channel
    events,           \* number of events queued in the node
    tpc,              \* position of each periodic blocking task in its loop
    stopped,          \* StopHandle.stopped
    waiter,           \* the Notified future of StopHandle::wait
    joined,           \* tasks whose PeriodicBlockingTask::wait has returned
    h,                \* history of the current process (what it did so far)
    scb_file,         \* the backup file given to scb.rs: [readable, text]
    seed,             \* the seed phrase given to scb.rs (args.seed)
    origin,           \* how the text of scb_file was made
    loaded,           \* what a function of scb.rs returned for them
    lists,            \* what list_channels and list_balances returned
    snapshot          \* what a balance check computed for them

vars == <<stateFile, ldk, lastRun, pc, state, first_run, scb, idx,
          connected_peers, failed_peers, sigint, events, tpc, stopped,
          waiter, joined, h, scb_file, seed, origin, loaded, lists,
          snapshot>>

disk == <<stateFile, ldk>>
locals == <<state, first_run, scb, idx, connected_peers, failed_peers>>
async == <<tpc, stopped, waiter, joined>>
monitor == <<sigint, events, async>>
scbio == <<scb_file, seed, origin, loaded>>
balio == <<lists, snapshot>>
fnio == <<scbio, balio>>

Tasks == {"balance", "wallet_sync", "event_loop"}

FileAbsent == [kind |-> "absent", by_peer |-> StateNew]
FileCorrupt == [kind |-> "corrupt", by_peer |-> StateNew]
\* state.rs State::save: File::create + serde_json::to_writer of by_peer
FileOf(s) == [kind |-> "ok", by_peer |-> s]

NoLdk == [exists |-> FALSE, monitors |-> FALSE]

\* what a process has done so far; reset when the next process starts
HistoryNew ==
    [ didReset |-> FALSE,        \* reset_recovery removed the state file
      wrote |-> FALSE,           \* the state file was created, written or removed
      resumed |-> FALSE,         \* same backup as the process before, which
                                 \* had run the initialization
      initDone |-> FALSE,        \* got past the initialization / mismatch step
      savedInit |-> FALSE,       \* the first-run save was written
      nodeOps |-> {},            \* node-engine operations invoked
      restoreCalls |-> 0,        \* restore_encoded_channel_monitors calls
      connectLog |-> <<>>,       \* peers node.connect was invoked for, in order
      fcCalls |-> 0,             \* force_close_all_channels... calls
      reported |-> {},           \* peers printed as failed
      balStops |-> 0,            \* times the balance check signalled stop
      lastSum |-> "none",        \* the last balance check: "zero", "positive"
      syncFailed |-> FALSE,      \* a periodic sync_wallets failed and was logged
      exit |-> "running" ]       \* how the process ended

NoRun == [initDone |-> FALSE, scb |-> <<>>]

\* the backup file's text is not looked at: LoadScb takes what
\* load_scb_guess_type returns for it
NoText == [readable |-> FALSE, text |-> <<>>]
NoOrigin == [how |-> "none"]
NotLoaded == [fn |-> "none"]

ScbUnused ==
    /\ scb_file = NoText
    /\ seed = "m1"
    /\ origin = NoOrigin
    /\ loaded = NotLoaded

\* the lists of the node are not looked at: the balance checks of the
\* runs take what check_and_print_balances returns for them
NoLists == [channels |-> {}, lightning_balances |-> <<>>, pending |-> <<>>]
NoSnapshot == [fn |-> "none"]

BalUnused ==
    /\ lists = NoLists
    /\ snapshot = NoSnapshot

Init ==
    /\ stateFile = FileAbsent
    /\ ldk = NoLdk
    /\ lastRun = NoRun
    /\ pc = "idle"
    /\ state = StateNew
    /\ first_run = FALSE
    /\ scb = <<>>
    /\ idx = 1
    /\ connected_peers = {}
    /\ failed_peers = {}
    /\ sigint = FALSE
    /\ events = 0
    /\ tpc = [t \in Tasks |-> "unspawned"]
    /\ stopped = FALSE
    /\ waiter = "none"
    /\ joined = {}
    /\ h = HistoryNew
    /\ ScbUnused
    /\ BalUnused

\* the process's memory is gone when it ends
LocalsGone ==
    /\ state' = StateNew
    /\ first_run' = FALSE
    /\ scb' = <<>>
    /\ idx' = 1
    /\ connected_peers' = {}
    /\ failed_peers' = {}

\* run returns Err / main returns: the process ends, having done `hist`
ExitWith(hist, how) ==
    /\ pc' = "idle"
    /\ h' = [hist EXCEPT !.exit = how]
    /\ lastRun' = IF hist.initDone
                  THEN [initDone |-> TRUE, scb |-> scb]
                  ELSE NoRun
    /\ LocalsGone

Exit(how) == ExitWith(h, how)

(* --------------------------- main.rs: main ----------------------------- *)

\* mutant: a reset removes the state file and leaves the ldk directory
ResetKeepsDir(how) ==
    CASE how = "ok" -> <<FileAbsent, ldk>>
      [] how = "file_failed" -> <<stateFile, ldk>>
      [] how = "dir_failed" -> <<FileAbsent, ldk>>

\* main.rs 407-416: reset_recovery; "ok", or which removal failed
ResetOutcome(how) ==
    CASE how = "ok" -> <<FileAbsent, NoLdk>>
      [] how = "file_failed" -> <<stateFile, ldk>>
      [] how = "dir_failed" -> <<FileAbsent, ldk>>

\* main.rs 433-455: a process starts: arguments, get_local_dir, and
\* reset_recovery under --reset-recovery
Main ==
    /\ pc = "idle"
    /\ sigint' = FALSE
    /\ events' = 0
    /\ \/ /\ ExitWith(HistoryNew, "err_local_dir")
          /\ UNCHANGED disk
       \/ /\ pc' = "load"                         \* no --reset-recovery
          /\ h' = HistoryNew
          /\ UNCHANGED <<disk, lastRun, locals>>
       \/ \E how \in {"ok", "file_failed", "dir_failed"} :
             /\ stateFile' = ResetOutcome(how)[1]
             /\ ldk' = ResetOutcome(how)[2]
             /\ IF how = "ok"
                THEN /\ pc' = "load"
                     /\ h' = [HistoryNew EXCEPT !.didReset = TRUE,
                                                !.wrote = TRUE]
                     /\ UNCHANGED <<lastRun, locals>>
                ELSE ExitWith([HistoryNew EXCEPT
                                  !.didReset = (how = "dir_failed"),
                                  !.wrote = (how = "dir_failed")],
                              "err_reset")
    /\ UNCHANGED async
    /\ UNCHANGED fnio

\* the ways run, the reset of main or get_local_dir return an Err
FatalErrors ==
    {"err_local_dir", "err_reset", "err_load", "err_scb", "err_save",
     "err_mismatch", "err_build", "err_start", "err_bad_backup", "err_stop"}

\* main.rs 433-465: main is `fn main()`: on every Err it logs, prints and
\* returns, and a main that returns ends the process with status 0; a
\* panic ends it with 101, a killed process has the status of its signal
exit_status(how) ==
    CASE how = "panic_scb" -> 101
      [] how = "crash" -> 137
      [] OTHER -> 0

\* main.rs 440-463: what main prints for the user when it ends: nothing
\* for get_local_dir (error! goes to the log only), the files to delete by
\* hand for a failed reset, the error and the log file for a failed run
error_report(how) ==
    CASE how = "err_local_dir" -> "nothing"
      [] how = "err_reset" -> "delete_by_hand"
      [] how \in FatalErrors -> "see_log_file"
      [] how = "panic_scb" -> "panic_message"
      [] OTHER -> "nothing"

(* ---------------------------- main.rs: run ----------------------------- *)

\* mutant: a state file that cannot be parsed is taken as no state
TryLoadLenient ==
    /\ pc = "load"
    /\ state' = IF stateFile.kind = "ok" THEN stateFile.by_peer ELSE StateNew
    /\ pc' = IF is_empty(state') THEN "scb" ELSE "prompt"
    /\ UNCHANGED <<h, lastRun, first_run, scb, idx, connected_peers,
                   failed_peers>>
    /\ UNCHANGED <<disk, monitor>>
    /\ UNCHANGED fnio

\* state.rs 27-36 State::try_load, main.rs 172-176
TryLoad ==
    /\ pc = "load"
    /\ \/ /\ stateFile.kind = "absent"          \* Ok(None).unwrap_or_default()
          /\ state' = StateNew
          /\ pc' = "scb"
          /\ UNCHANGED <<h, lastRun, first_run, scb, idx, connected_peers,
                         failed_peers>>
       \/ /\ stateFile.kind = "ok"              \* Ok(Some(state))
          /\ state' = stateFile.by_peer
          /\ pc' = IF is_empty(stateFile.by_peer) THEN "scb" ELSE "prompt"
          /\ UNCHANGED <<h, lastRun, first_run, scb, idx, connected_peers,
                         failed_peers>>
       \/ /\ stateFile.kind = "corrupt"         \* serde_json::from_reader fails
          /\ Exit("err_load")
       \/ /\ stateFile.kind # "absent"          \* File::open fails
          /\ Exit("err_load")
    /\ UNCHANGED <<disk, monitor>>
    /\ UNCHANGED fnio

\* main.rs 176-191: the resume prompt; Enter resumes, NEW resets
Prompt ==
    /\ pc = "prompt"
    /\ \/ /\ pc' = "scb"
          /\ UNCHANGED <<disk, lastRun, locals, h>>
       \/ \E how \in {"ok", "file_failed", "dir_failed"} :
             /\ stateFile' = ResetOutcome(how)[1]
             /\ ldk' = ResetOutcome(how)[2]
             /\ IF how = "ok"
                THEN /\ state' = StateNew
                     /\ pc' = "scb"
                     /\ h' = [h EXCEPT !.didReset = TRUE, !.wrote = TRUE]
                     /\ UNCHANGED <<lastRun, first_run, scb, idx,
                                    connected_peers, failed_peers>>
                ELSE ExitWith([h EXCEPT !.didReset = (how = "dir_failed"),
                                        !.wrote = (how = "dir_failed")],
                              "err_reset")
    /\ UNCHANGED monitor
    /\ UNCHANGED fnio

\* mutant: the state is saved before the backup file is loaded, so a
\* failed load leaves a state file written by this run
LoadScbAfterSave ==
    /\ pc = "scb"
    /\ stateFile' = FileOf(state)
    /\ ExitWith([h EXCEPT !.wrote = TRUE], "err_scb")
    /\ UNCHANGED <<ldk, monitor>>
    /\ UNCHANGED fnio

\* main.rs 193-205: first_run is fixed, then the backup file is loaded
LoadScb ==
    /\ pc = "scb"
    /\ \/ /\ first_run' = is_empty(state)
          /\ \E b \in Backups :
                /\ scb' = b
                /\ h' = [h EXCEPT !.resumed =
                            lastRun.initDone /\ lastRun.scb = b
                            /\ ~h.didReset]
          /\ lastRun' = NoRun
          /\ pc' = "init"
          /\ UNCHANGED <<state, idx, connected_peers, failed_peers>>
       \/ Exit("err_scb")                       \* Err: propagated with `?`
       \/ Exit("panic_scb")                     \* scb.rs 131 panicked
    /\ UNCHANGED <<disk, monitor>>
    /\ UNCHANGED fnio

\* state.rs 38-42 State::save: File::create truncates, to_writer writes.
\* "ok"; "create_failed" leaves the file as it was; "write_failed" leaves
\* the truncated file behind
SaveOutcome(how, s) ==
    CASE how = "ok" -> FileOf(s)
      [] how = "create_failed" -> stateFile
      [] how = "write_failed" -> FileCorrupt

\* mutant: the state is initialized on every run
NeedsInitAlways(s) == TRUE

\* mutant: only backup channels unknown to the state are a mismatch
MismatchUnknownOnly(s, b) == ~(channel_ids(b) \subseteq get_all_channel_ids(s))

\* main.rs 207: the state is initialized when it is empty
NeedsInit(s) == is_empty(s)

\* main.rs 215: the channel ids of the state differ from the backup's
Mismatch(s, b) == get_all_channel_ids(s) # channel_ids(b)

\* main.rs 207-227: first-run initialization, or the mismatch check
InitState ==
    /\ pc = "init"
    /\ IF NeedsInit(state)
       THEN \E how \in {"ok", "create_failed", "write_failed"} :
               /\ stateFile' = SaveOutcome(how, InitPending(state, scb, 1))
               /\ IF how = "ok"
                  THEN /\ state' = InitPending(state, scb, 1)
                       /\ pc' = "build"
                       /\ h' = [h EXCEPT !.savedInit = TRUE,
                                         !.wrote = TRUE,
                                         !.initDone = TRUE]
                       /\ UNCHANGED <<lastRun, first_run, scb, idx,
                                      connected_peers, failed_peers>>
                  ELSE ExitWith([h EXCEPT !.wrote = (how = "write_failed")],
                                "err_save")
       ELSE /\ UNCHANGED stateFile
            /\ IF Mismatch(state, scb)
               THEN Exit("err_mismatch")
               ELSE /\ pc' = "build"
                    /\ h' = [h EXCEPT !.initDone = TRUE]
                    /\ UNCHANGED <<lastRun, locals>>
    /\ UNCHANGED <<ldk, monitor>>
    /\ UNCHANGED fnio

\* main.rs 240-274: the builder, restore_encoded_channel_monitors on a
\* first run, build()
Build ==
    /\ pc = "build"
    /\ LET did == [h EXCEPT !.nodeOps = @ \cup {"build"}
                                \cup (IF first_run THEN {"restore"} ELSE {}),
                            !.restoreCalls = @ + (IF first_run THEN 1 ELSE 0)]
       IN  \/ /\ ldk' = [exists |-> TRUE, monitors |-> ldk.monitors \/ first_run]
              /\ pc' = "start"
              /\ h' = did
              /\ UNCHANGED <<lastRun, locals>>
           \/ /\ ldk' = ldk
              /\ ExitWith(did, "err_build")
    /\ UNCHANGED <<stateFile, monitor>>
    /\ UNCHANGED fnio

\* main.rs 276: node.start()
NodeStart ==
    /\ pc = "start"
    /\ LET did == [h EXCEPT !.nodeOps = @ \cup {"start"}]
       IN  \/ /\ pc' = "sync0"
              /\ h' = did
              /\ UNCHANGED <<lastRun, locals>>
           \/ ExitWith(did, "err_start")
    /\ UNCHANGED <<disk, monitor>>
    /\ UNCHANGED fnio

\* main.rs 278-285: the initial sync_wallets; an error is only printed
InitialSync ==
    /\ pc = "sync0"
    /\ pc' = "connect"
    /\ idx' = 1
    /\ connected_peers' = {}
    /\ failed_peers' = {}
    /\ h' = [h EXCEPT !.nodeOps = @ \cup {"sync_wallets"}]
    /\ UNCHANGED <<disk, lastRun, state, first_run, scb, monitor>>
    /\ UNCHANGED fnio

\* mutant: a failed node.connect is propagated with `?`
OnConnectErrorFatal(peer, did) == ExitWith(did, "err_connect")

\* main.rs 298-300: node.connect failed: logged, the peer goes to
\* failed_peers, the loop goes on
OnConnectError(peer, did) ==
    /\ failed_peers' = failed_peers \cup {peer}
    /\ idx' = idx + 1
    /\ h' = did
    /\ UNCHANGED <<pc, lastRun, state, first_run, scb, connected_peers>>

\* main.rs 288-308: one iteration of the connect loop; 310-316 when it ends
Connect ==
    /\ pc = "connect"
    /\ IF idx > Len(scb)
       THEN /\ pc' = "forceclose"
            /\ h' = [h EXCEPT !.reported = failed_peers]
            /\ UNCHANGED <<lastRun, locals>>
       ELSE LET peer == scb[idx].peer_id
                did == [h EXCEPT !.connectLog = Append(@, peer),
                                 !.nodeOps = @ \cup {"connect"}]
            IN
            IF peer \in connected_peers
            THEN /\ idx' = idx + 1
                 /\ UNCHANGED <<pc, h, lastRun, state, first_run, scb,
                                connected_peers, failed_peers>>
            ELSE \/ Exit("err_bad_backup")      \* invalid peer id or address
                 \/ /\ connected_peers' = connected_peers \cup {peer}
                    /\ idx' = idx + 1
                    /\ h' = did
                    /\ UNCHANGED <<pc, lastRun, state, first_run, scb,
                                   failed_peers>>
                 \/ OnConnectError(peer, did)
    /\ UNCHANGED <<disk, monitor>>
    /\ UNCHANGED fnio

\* main.rs 318-323: force-close when a channel of the state is Pending
ForceClose ==
    /\ pc = "forceclose"
    /\ pc' = "save"
    /\ h' = IF has_pending_channels(state)
            THEN [h EXCEPT !.fcCalls = @ + 1,
                           !.nodeOps = @ \cup {"force_close"}]
            ELSE h
    /\ UNCHANGED <<disk, lastRun, locals, monitor>>
    /\ UNCHANGED fnio

\* main.rs 326-343: update the channels of connected peers, save the state
UpdateAndSave ==
    /\ pc = "save"
    /\ \E how \in {"ok", "create_failed", "write_failed"} :
          /\ stateFile' = SaveOutcome(how,
                             UpdateConnected(state, scb, connected_peers, 1))
          /\ IF how = "ok"
             THEN /\ state' = UpdateConnected(state, scb, connected_peers, 1)
                  /\ pc' = "monitor"
                  /\ h' = [h EXCEPT !.wrote = TRUE]
                  /\ UNCHANGED <<lastRun, first_run, scb, idx,
                                 connected_peers, failed_peers>>
             ELSE ExitWith([h EXCEPT !.wrote = (how = "write_failed")],
                           "err_save")
    /\ UNCHANGED <<ldk, monitor>>
    /\ UNCHANGED fnio

(* ------------------- balance.rs: check_and_print_balances -------------- *)

\* ldk_node LightningBalance / PendingSweepBalance through
\* get_ln_balance_channel_amount / get_pending_sweep_balance_amount
LnBalance == [channel_id : ChanIds, amount : 0..MaxAmount]
LnBalanceLists == UNION {[1..n -> LnBalance] : n \in 0..MaxBalances}
SweepLists == UNION {[1..n -> 0..MaxAmount] : n \in 0..MaxBalances}

\* mutant: only the first lightning balance is looked at
ClaimableFirstOnly(listed, lnb, i) ==
    IF Len(lnb) = 0 \/ lnb[1].channel_id \in listed THEN 0 ELSE lnb[1].amount

\* balance.rs 85-89: amounts of the balances whose channel the node no
\* longer lists, reduced with +, 0 when there is none
RECURSIVE Claimable(_, _, _)
Claimable(listed, lnb, i) ==
    IF i > Len(lnb) THEN 0
    ELSE (IF lnb[i].channel_id \in listed THEN 0 ELSE lnb[i].amount)
         + Claimable(listed, lnb, i + 1)

\* balance.rs 97-101: amounts of all pending sweep balances
RECURSIVE PendingSweep(_, _)
PendingSweep(pb, i) ==
    IF i > Len(pb) THEN 0 ELSE pb[i] + PendingSweep(pb, i + 1)

\* balance.rs 65-161: the value check_and_print_balances returns
check_and_print_balances(listed, lnb, pb) ==
    Claimable(listed, lnb, 1) + PendingSweep(pb, 1)

\* what check_and_print_balances can return for the lists the node returns
LoopSums ==
    {check_and_print_balances(listed, lnb, pb) :
        listed \in SUBSET ChanIds, lnb \in LnBalanceLists, pb \in SweepLists}

(* --------------------- main.rs: the monitoring loop -------------------- *)

\* the positions of run inside its monitoring loop (main.rs 353-391)
LoopPcs == {"monitor", "balance", "sync", "sync_failed", "drain"}

\* main.rs 348: the Ctrl-C handler sends a message on the channel
Interrupt ==
    /\ pc \in LoopPcs
    /\ ~sigint
    /\ sigint' = TRUE
    /\ UNCHANGED <<disk, lastRun, pc, locals, events, async, h>>
    /\ UNCHANGED fnio

\* the node queues an event while it runs. The loop of main.rs looks at
\* the queue only in its drain (main.rs 381), so an event queued earlier
\* in an iteration is taken as queued when the drain begins
EventArrives ==
    /\ pc \in {"drain", "await_stop", "waiting", "join"}
    /\ events < MaxEvents
    /\ events' = events + 1
    /\ UNCHANGED <<disk, lastRun, pc, locals, sigint, async, h>>
    /\ UNCHANGED fnio

\* main.rs 353-357: rx.try_recv() at the top of the loop
LoopTop ==
    /\ pc = "monitor"
    /\ IF sigint
       THEN /\ sigint' = FALSE
            /\ pc' = "node_stop"
       ELSE /\ sigint' = sigint
            /\ pc' = "balance"
    /\ UNCHANGED <<disk, lastRun, locals, events, async, h>>
    /\ UNCHANGED fnio

\* what one balance check that computed `sum` and signalled stop, or did
\* not, leaves in the history
Checked(sum, signalled) ==
    [h EXCEPT !.lastSum = IF sum = 0 THEN "zero" ELSE "positive",
              !.balStops = @ + (IF signalled THEN 1 ELSE 0)]

\* main.rs 362: the loop ends when the balance check returns 0
LoopEnds(sum) == sum = 0

\* main.rs 361-368: the balance check, when 3 s have passed
BalanceCheck ==
    /\ pc = "balance"
    /\ \/ /\ pc' = "sync"                        \* not due yet
          /\ UNCHANGED h
       \/ \E sum \in LoopSums :
             /\ h' = Checked(sum, LoopEnds(sum))
             /\ pc' = IF LoopEnds(sum) THEN "node_stop" ELSE "sync"
    /\ UNCHANGED <<disk, lastRun, locals, monitor>>
    /\ UNCHANGED fnio

\* main.rs 370-378: sync_wallets when 4 s have passed
WalletSync ==
    /\ pc = "sync"
    /\ \/ pc' = "drain"                          \* not due yet, or Ok
       \/ pc' = "sync_failed"                    \* Err(e)
    /\ UNCHANGED <<disk, lastRun, locals, monitor, h>>
    /\ UNCHANGED fnio

\* mutant: a failed periodic sync_wallets is propagated with `?`
SyncFailedFatal ==
    /\ pc = "sync_failed"
    /\ ExitWith([h EXCEPT !.syncFailed = TRUE], "err_sync")
    /\ UNCHANGED <<disk, monitor>>
    /\ UNCHANGED fnio

\* main.rs 372-374: sync_wallets failed: the error is logged, the loop
\* goes on
SyncFailed ==
    /\ pc = "sync_failed"
    /\ pc' = "drain"
    /\ h' = [h EXCEPT !.syncFailed = TRUE]
    /\ UNCHANGED <<disk, lastRun, locals, monitor>>
    /\ UNCHANGED fnio

\* main.rs 380-388: next_event() returned an event; event_handled()
DrainOne ==
    /\ pc = "drain"
    /\ events > 0
    /\ events' = events - 1
    /\ UNCHANGED <<disk, lastRun, pc, locals, sigint, async, h>>
    /\ UNCHANGED fnio

\* main.rs 386-390: next_event() returned None; sleep 100 ms
DrainDone ==
    /\ pc = "drain"
    /\ events = 0
    /\ pc' = "monitor"
    /\ UNCHANGED <<disk, lastRun, locals, monitor, h>>
    /\ UNCHANGED fnio

\* mutant: the shutdown step clears the recovery state and saves it
NodeStopSaving ==
    /\ pc = "node_stop"
    /\ stateFile' = FileOf(StateNew)
    /\ ExitWith([h EXCEPT !.nodeOps = @ \cup {"stop"}], "ok")
    /\ UNCHANGED <<ldk, monitor>>
    /\ UNCHANGED fnio

\* main.rs 393-397: node.stop()
NodeStop ==
    /\ pc = "node_stop"
    /\ \E how \in {"ok", "err_stop"} :
          ExitWith([h EXCEPT !.nodeOps = @ \cup {"stop"}], how)
    /\ UNCHANGED <<disk, monitor>>
    /\ UNCHANGED fnio

(* ------------- periodic_blocking_task.rs and node_tasks ---------------- *)

\* the positions of run while the periodic tasks run
TaskPcs == {"await_stop", "waiting", "join"}

\* periodic_blocking_task.rs 24-27 StopHandle::stop: notify_waiters wakes
\* the Notified futures that exist at the call and stores no permit
notify_waiters(w) == IF w = "registered" THEN "woken" ELSE w

\* periodic_blocking_task.rs 29-31 StopHandle::is_stopped
is_stopped == stopped

\* run starts the three periodic tasks on the node and installs the Ctrl-C
\* handler, which calls StopHandle::stop
SpawnTasks ==
    /\ pc = "spawn"
    /\ tpc' = [t \in Tasks |-> "head"]
    /\ pc' = "await_stop"
    /\ UNCHANGED <<disk, lastRun, locals, sigint, events, stopped, waiter,
                   joined, h>>
    /\ UNCHANGED fnio

\* periodic_blocking_task.rs 33-35 StopHandle::wait: the Notified future is
\* created when run awaits it
AwaitStop ==
    /\ pc = "await_stop"
    /\ waiter' = "registered"
    /\ pc' = "waiting"
    /\ UNCHANGED <<disk, lastRun, locals, sigint, events, tpc, stopped,
                   joined, h>>
    /\ UNCHANGED fnio

\* periodic_blocking_task.rs 33-35: StopHandle::wait returns once notified
StopWaitReturns ==
    /\ pc = "waiting"
    /\ waiter = "woken"
    /\ pc' = "join"
    /\ UNCHANGED <<disk, lastRun, locals, monitor, h>>
    /\ UNCHANGED fnio

\* Ctrl-C while the tasks run: the handler calls StopHandle::stop
InterruptStop ==
    /\ pc \in TaskPcs
    /\ stopped' = TRUE
    /\ waiter' = notify_waiters(waiter)
    /\ UNCHANGED <<disk, lastRun, pc, locals, sigint, events, tpc, joined, h>>
    /\ UNCHANGED fnio

\* periodic_blocking_task.rs 46: the loop calls f()
TaskBegin(t) ==
    /\ pc \in TaskPcs
    /\ tpc[t] = "head"
    /\ tpc' = [tpc EXCEPT ![t] = "body"]
    /\ UNCHANGED <<disk, lastRun, pc, locals, sigint, events, stopped,
                   waiter, joined, h>>
    /\ UNCHANGED fnio

\* node_tasks/balance.rs 65-88: claimable and pending_sweep of one check
task_balance_sum(listed, lnb, pb) ==
    Claimable(listed, lnb, 1) + PendingSweep(pb, 1)

\* what the balance task can compute for the lists the node returns
TaskSums ==
    {task_balance_sum(listed, lnb, pb) :
        listed \in SUBSET ChanIds, lnb \in LnBalanceLists, pb \in SweepLists}

\* mutant: the balance task stops whatever it computed
TaskSignalsAlways(sum) == TRUE

\* node_tasks/balance.rs 111-115: stop when nothing is pending
TaskSignals(sum) == sum = 0

\* node_tasks/balance.rs 64-118: the body of the balance task
BalanceBody ==
    \E sum \in TaskSums :
       /\ h' = Checked(sum, TaskSignals(sum))
       /\ stopped' = (stopped \/ TaskSignals(sum))
       /\ waiter' = IF TaskSignals(sum) THEN notify_waiters(waiter) ELSE waiter
       /\ events' = events

\* node_tasks/wallet_sync.rs 10-16: sync_wallets, Ok or Err
WalletSyncBody ==
    UNCHANGED <<h, stopped, waiter, events>>

\* which bodies can return Err: node_tasks/wallet_sync.rs 12 `?`; the
\* bodies of the other two tasks return Ok(())
CanFail(t) == t = "wallet_sync"

\* node_tasks/event_loop.rs 10-17: one next_event(), acknowledged if Some
EventLoopBody ==
    /\ events' = IF events > 0 THEN events - 1 ELSE events
    /\ UNCHANGED <<h, stopped, waiter>>

\* periodic_blocking_task.rs 46-48: f() returned Err: `task failed` is
\* logged, the task goes on to its sleep
TaskFailed(t) ==
    /\ pc \in TaskPcs
    /\ tpc[t] = "failed"
    /\ tpc' = [tpc EXCEPT ![t] = "sleep"]
    /\ h' = [h EXCEPT !.syncFailed = TRUE]
    /\ UNCHANGED <<disk, lastRun, pc, locals, sigint, events, stopped,
                   waiter, joined>>
    /\ UNCHANGED fnio

\* periodic_blocking_task.rs 46-50: f() returns, Ok or Err
TaskEnd(t) ==
    /\ pc \in TaskPcs
    /\ tpc[t] = "body"
    /\ \E r \in {"sleep"} \cup (IF CanFail(t) THEN {"failed"} ELSE {}) :
          tpc' = [tpc EXCEPT ![t] = r]
    /\ CASE t = "balance" -> BalanceBody
         [] t = "wallet_sync" -> WalletSyncBody
         [] t = "event_loop" -> EventLoopBody
    /\ UNCHANGED <<disk, lastRun, pc, locals, sigint, joined>>
    /\ UNCHANGED fnio

\* periodic_blocking_task.rs 50-54: the sleep ends, is_stopped() decides
TaskWake(t) ==
    /\ pc \in TaskPcs
    /\ tpc[t] = "sleep"
    /\ tpc' = [tpc EXCEPT ![t] = IF is_stopped THEN "exited" ELSE "head"]
    /\ UNCHANGED <<disk, lastRun, pc, locals, sigint, events, stopped,
                   waiter, joined, h>>
    /\ UNCHANGED fnio

\* mutant: wait returns without the task having left its loop
wait_returns_early(t) == tpc[t] # "unspawned"

\* periodic_blocking_task.rs 62-64 PeriodicBlockingTask::wait: the
\* JoinHandle resolves when the closure has returned
wait_returns(t) == tpc[t] = "exited"

\* run awaits PeriodicBlockingTask::wait of each task, then stops the node
JoinTask(t) ==
    /\ pc = "join"
    /\ t \notin joined
    /\ wait_returns(t)
    /\ joined' = joined \cup {t}
    /\ pc' = IF joined' = Tasks THEN "node_stop" ELSE "join"
    /\ UNCHANGED <<disk, lastRun, locals, sigint, events, tpc, stopped,
                   waiter, h>>
    /\ UNCHANGED fnio

(* ------------------------------ scb.rs --------------------------------- *)

\* the characters of a backup file: two hex digits, a character that is
\* no hex digit and opens a JSON backup, and the dash
HexDigits == {"0", "1"}
Chars == HexDigits \cup {"j", "-"}

\* a byte has two hex digits
Bytes == 0..3

\* all sequences over S of length at most n
SeqsUpTo(S, n) == UNION {[1..k -> S] : k \in 0..n}

Ok(v) == [kind |-> "ok", value |-> v, err |-> "", ctx |-> <<>>]
Err(e) == [kind |-> "err", value |-> <<>>, err |-> e, ctx |-> <<>>]
Panic(e) == [kind |-> "panic", value |-> <<>>, err |-> e, ctx |-> <<>>]

\* anyhow's .context(c) on a Result: an Err gets c as its outermost context
context(r, c) ==
    IF r.kind = "err" THEN [r EXCEPT !.ctx = <<c>> \o @] ELSE r

\* serde_json parse of a StaticChannelBackup: "j" and one digit for each
\* channel
ChannelOf(d) ==
    IF d = "0" THEN [peer_id |-> "p1", channel_id |-> "a"]
    ELSE [peer_id |-> "p2", channel_id |-> "b"]

from_json(text) ==
    IF /\ Len(text) >= 1
       /\ text[1] = "j"
       /\ \A i \in 2..Len(text) : text[i] \in HexDigits
    THEN Ok([i \in 1..(Len(text) - 1) |-> ChannelOf(text[i + 1])])
    ELSE Err("json")

\* xs.split('-')
RECURSIVE SplitFrom(_, _, _, _)
SplitFrom(xs, i, cur, acc) ==
    IF i > Len(xs) THEN Append(acc, cur)
    ELSE IF xs[i] = "-" THEN SplitFrom(xs, i + 1, <<>>, Append(acc, cur))
    ELSE SplitFrom(xs, i + 1, Append(cur, xs[i]), acc)

split(xs) == SplitFrom(xs, 1, <<>>, <<>>)

DigitValue(d) == IF d = "0" THEN 0 ELSE 1
DigitChar(v) == IF v = 0 THEN "0" ELSE "1"

\* hex::decode: odd length, then invalid character, else the bytes
hex_decode(s) ==
    IF Len(s) % 2 # 0 THEN Err("hex_odd_length")
    ELSE IF \E i \in 1..Len(s) : s[i] \notin HexDigits
         THEN Err("hex_invalid_char")
         ELSE Ok([i \in 1..(Len(s) \div 2) |->
                     2 * DigitValue(s[2 * i - 1]) + DigitValue(s[2 * i])])

\* hex::encode, which the writer of an encrypted backup applies
hex_encode(bs) ==
    [i \in 1..(2 * Len(bs)) |->
        IF i % 2 = 1 THEN DigitChar(bs[(i + 1) \div 2] \div 2)
        ELSE DigitChar(bs[i \div 2] % 2)]

\* String::from_utf8 and str::as_bytes: byte 3 is no valid UTF-8
CharOfByte(b) == CASE b = 0 -> "0" [] b = 1 -> "1" [] OTHER -> "j"
ByteOfChar(c) == CASE c = "0" -> 0 [] c = "1" -> 1 [] OTHER -> 2

from_utf8(bs) ==
    IF \E i \in 1..Len(bs) : bs[i] = 3 THEN Err("utf8")
    ELSE Ok([i \in 1..Len(bs) |-> CharOfByte(bs[i])])

as_bytes(s) == [i \in 1..Len(s) |-> ByteOfChar(s[i])]

\* the seed phrases, and the key derive_scb_key gives for each
Mnemonics == {"m1", "m2"}
derive_scb_key(mnemonic) == IF mnemonic = "m1" THEN 1 ELSE 3

\* the length of an AES-GCM nonce (96 bits) and of its tag, in bytes of
\* this model
NonceLen == 1
TagLen == NonceLen + 2

RECURSIVE SumBytes(_, _)
SumBytes(bs, i) == IF i > Len(bs) THEN 0 ELSE bs[i] + SumBytes(bs, i + 1)

\* AES-256-GCM as an ideal cipher. The body is the plaintext under a key
\* stream of key and nonce; the tag is a function of key, nonce and
\* plaintext that no other key, nonce or body of that length reproduces
KeyStream(key, nonce, i) == key + SumBytes(nonce, 1) + i

Tag(key, nonce, pt) ==
    <<key>> \o nonce \o <<(SumBytes(pt, 1) + Len(pt)) % 4>>

\* Aes256Gcm::encrypt, which the writer of an encrypted backup applies
aead_encrypt(key, nonce, pt) ==
    [i \in 1..Len(pt) |-> (pt[i] + KeyStream(key, nonce, i)) % 4]
       \o Tag(key, nonce, pt)

\* Aes256Gcm::decrypt: a ciphertext shorter than the tag, or whose tag
\* does not verify, is an error
aead_decrypt(key, nonce, ct) ==
    IF Len(ct) < TagLen THEN Err("aead")
    ELSE LET n == Len(ct) - TagLen
             pt == [i \in 1..n |->
                       (ct[i] + 4 * (Len(ct) + NonceLen + 1)
                          - KeyStream(key, nonce, i)) % 4]
         IN IF SubSeq(ct, n + 1, Len(ct)) = Tag(key, nonce, pt)
            THEN Ok(pt)
            ELSE Err("aead")

\* scb.rs 126-134 decrypt: Nonce::from_slice panics on a slice that is not
\* of the nonce's length
decrypt(nonce, ciphertext, key) ==
    IF Len(nonce) # NonceLen THEN Panic("nonce_length")
    ELSE context(aead_decrypt(key, nonce, ciphertext),
                 "failed to decrypt ciphertext")

\* scb.rs 136-139
decrypt_scb(nonce, ciphertext, mnemonic) ==
    decrypt(nonce, ciphertext, derive_scb_key(mnemonic))

\* mutant: the parts after the second are ignored
two_parts_or_more(parts) == Len(parts) >= 2

\* scb.rs 143: exactly two dash-separated parts
two_parts(parts) == Len(parts) = 2

\* scb.rs 141-153
decrypt_scb_str(xs, mnemonic) ==
    LET parts == split(xs) IN
    IF ~two_parts(parts) THEN Err("invalid SCB format")
    ELSE LET nonce == context(hex_decode(parts[1]), "failed to decode nonce")
             ciphertext == context(hex_decode(parts[2]),
                                   "failed to decode encrypted data")
         IN IF nonce.kind # "ok" THEN nonce
            ELSE IF ciphertext.kind # "ok" THEN ciphertext
            ELSE LET plaintext ==
                        decrypt_scb(nonce.value, ciphertext.value, mnemonic)
                 IN IF plaintext.kind # "ok" THEN plaintext
                    ELSE from_utf8(plaintext.value)

\* a backup file: there and readable with a text, or not
NoFile == NoText
FileWith(text) == [readable |-> TRUE, text |-> text]

\* scb.rs 66-74 load_scb
load_scb(file) ==
    IF ~file.readable THEN context(Err("io"), "failed to open SCB file")
    ELSE context(from_json(file.text), "failed to parse SCB file")

\* scb.rs 76-83 load_scb_encrypted
load_scb_encrypted(file, mnemonic) ==
    IF ~file.readable THEN context(Err("io"), "failed to read SCB file")
    ELSE LET plaintext == decrypt_scb_str(file.text, mnemonic)
         IN IF plaintext.kind # "ok" THEN plaintext
            ELSE context(from_json(plaintext.value), "failed to parse SCB file")

\* scb.rs 57-64 load_scb_guess_type: load_scb, or_else
\* load_scb_encrypted, and the context of the whole
load_scb_guess_type(file, mnemonic) ==
    LET plain == load_scb(file) IN
    context(IF plain.kind = "ok" THEN plain
            ELSE load_scb_encrypted(file, mnemonic),
            "failed to load SCB")

\* the loaders load_scb_guess_type calls, in order: or_else calls its
\* closure only on an Err
guess_type_calls(file, mnemonic) ==
    IF load_scb(file).kind = "ok" THEN <<"load_scb">>
    ELSE <<"load_scb", "load_scb_encrypted">>

(* ------------------------------ crashes -------------------------------- *)

\* the process is killed (Ctrl-C before the handler is installed, kill,
\* power loss) between two steps
Crash ==
    /\ pc # "idle"
    /\ Exit("crash")
    /\ UNCHANGED <<disk, monitor>>
    /\ UNCHANGED fnio

\* the process is killed inside State::save, after File::create truncated
\* the file and before to_writer wrote it (state.rs 39-40)
CrashDuringSave ==
    /\ \/ pc = "init" /\ NeedsInit(state)
       \/ pc = "save"
    /\ stateFile' = FileCorrupt
    /\ ExitWith([h EXCEPT !.wrote = TRUE], "crash")
    /\ UNCHANGED <<ldk, monitor>>
    /\ UNCHANGED fnio

Next ==
    \/ Main
    \/ TryLoad
    \/ Prompt
    \/ LoadScb
    \/ InitState
    \/ Build
    \/ NodeStart
    \/ InitialSync
    \/ Connect
    \/ ForceClose
    \/ UpdateAndSave
    \/ Interrupt
    \/ EventArrives
    \/ LoopTop
    \/ BalanceCheck
    \/ WalletSync
    \/ SyncFailed
    \/ DrainOne
    \/ DrainDone
    \/ NodeStop
    \/ Crash
    \/ CrashDuringSave

Spec == Init /\ [][Next]_vars

(* ------------------------ the monitoring phase ------------------------- *)

OneChannel == <<[peer_id |-> "p1", channel_id |-> "a"]>>

\* run has saved the state (main.rs 341-343) of a first run with a backup
\* of one channel whose peer it connected, and enters the monitoring
\* phase: the loop of main.rs, or the periodic tasks
MonitorInit ==
    /\ stateFile = FileOf(set_channel_state(StateNew, "p1", "a",
                                            "ForceCloseInitiated"))
    /\ ldk = [exists |-> TRUE, monitors |-> TRUE]
    /\ lastRun = NoRun
    /\ pc \in {"monitor", "spawn"}
    /\ state = stateFile.by_peer
    /\ first_run = TRUE
    /\ scb = OneChannel
    /\ idx = 2
    /\ connected_peers = {"p1"}
    /\ failed_peers = {}
    /\ sigint = FALSE
    /\ events = 0
    /\ tpc = [t \in Tasks |-> "unspawned"]
    /\ stopped = FALSE
    /\ waiter = "none"
    /\ joined = {}
    /\ ScbUnused
    /\ BalUnused
    /\ h = [HistoryNew EXCEPT
               !.wrote = TRUE, !.initDone = TRUE, !.savedInit = TRUE,
               !.nodeOps = {"restore", "build", "start", "sync_wallets",
                            "connect", "force_close"},
               !.restoreCalls = 1, !.connectLog = <<"p1">>, !.fcCalls = 1]

MonitorNext ==
    \/ Interrupt
    \/ EventArrives
    \/ LoopTop
    \/ BalanceCheck
    \/ WalletSync
    \/ SyncFailed
    \/ DrainOne
    \/ DrainDone
    \/ NodeStop
    \/ SpawnTasks
    \/ AwaitStop
    \/ StopWaitReturns
    \/ InterruptStop
    \/ \E t \in Tasks : TaskBegin(t)
    \/ \E t \in Tasks : TaskEnd(t)
    \/ \E t \in Tasks : TaskFailed(t)
    \/ \E t \in Tasks : TaskWake(t)
    \/ \E t \in Tasks : JoinTask(t)

MonitorSpec == MonitorInit /\ [][MonitorNext]_vars

\* MonitorInit with the loop of main.rs is a state of Spec: Spec violates
\* this
MonitorInitUnreached == ~MonitorInit

(* ------------------- scb.rs: loading a backup file -------------------- *)

\* the texts that are encrypted: JSON backups and other UTF-8 texts
PlainTexts == SeqsUpTo({"0", "1", "j"}, MaxPlain)
Nonces == [1..NonceLen -> Bytes]

\* byte k of bs changed
Flip(bs, k) == [bs EXCEPT ![k] = (@ + 1) % 4]

\* <nonce_hex>-<ciphertext_hex>
EncryptedText(nonce, ct) == hex_encode(nonce) \o <<"-">> \o hex_encode(ct)

\* the ways a backup file's text is made from a text s0, the seed phrase
\* m0 and the nonce n0 of its writer
Hows ==
    {"plain", "authentic", "other_nonce", "short_nonce", "long_nonce",
     "tampered", "truncated", "bad_hex", "odd_hex", "one_part",
     "three_parts", "invalid_utf8"}

MakeText(how, s0, m0, n0, k) ==
    LET key == derive_scb_key(m0)
        ct == aead_encrypt(key, n0, as_bytes(s0))
        text == EncryptedText(n0, ct)
    IN CASE how = "plain" -> s0
         [] how = "authentic" -> text
         [] how = "other_nonce" -> EncryptedText(Flip(n0, 1), ct)
         [] how = "short_nonce" ->
               EncryptedText(SubSeq(n0, 1, NonceLen - 1), ct)
         [] how = "long_nonce" -> EncryptedText(n0 \o <<0>>, ct)
         [] how = "tampered" -> EncryptedText(n0, Flip(ct, k))
         [] how = "truncated" ->
               EncryptedText(n0, SubSeq(ct, 1, TagLen - 1))
         [] how = "bad_hex" -> <<"j">> \o Tail(text)
         [] how = "odd_hex" -> SubSeq(text, 1, Len(text) - 1)
         [] how = "one_part" -> hex_encode(n0) \o hex_encode(ct)
         [] how = "three_parts" -> text \o <<"-", "0", "0">>
         [] how = "invalid_utf8" ->
               EncryptedText(n0, aead_encrypt(key, n0, as_bytes(s0) \o <<3>>))

\* a backup file, made in one of these ways or unreadable, and the seed
\* phrase the user gives; the process has not started
ScbInit ==
    /\ stateFile = FileAbsent
    /\ ldk = NoLdk
    /\ lastRun = NoRun
    /\ pc = "idle"
    /\ state = StateNew
    /\ first_run = FALSE
    /\ scb = <<>>
    /\ idx = 1
    /\ connected_peers = {}
    /\ failed_peers = {}
    /\ sigint = FALSE
    /\ events = 0
    /\ tpc = [t \in Tasks |-> "unspawned"]
    /\ stopped = FALSE
    /\ waiter = "none"
    /\ joined = {}
    /\ h = HistoryNew
    /\ BalUnused
    /\ loaded = NotLoaded
    /\ seed \in Mnemonics
    /\ \/ /\ origin = [how |-> "unreadable"]
          /\ scb_file = NoFile
       \/ \E how \in Hows, s0 \in PlainTexts, m0 \in Mnemonics, n0 \in Nonces,
             k \in 1..(MaxPlain + TagLen) :
             /\ how = "tampered" => k <= Len(s0) + TagLen
             /\ how # "tampered" => k = 1
             /\ origin = [how |-> how, s0 |-> s0, m0 |-> m0, n0 |-> n0,
                          k |-> k]
             /\ scb_file = FileWith(MakeText(how, s0, m0, n0, k))

\* main.rs 204: run calls load_scb_guess_type
GuessType ==
    /\ loaded = NotLoaded
    /\ loaded' = [fn |-> "load_scb_guess_type",
                  r |-> load_scb_guess_type(scb_file, seed),
                  calls |-> guess_type_calls(scb_file, seed)]
    /\ UNCHANGED <<disk, lastRun, pc, locals, monitor, h, scb_file, seed,
                   origin, balio>>

\* scb.rs 81: decrypt_scb_str on the text read from the file
DecryptStr ==
    /\ loaded = NotLoaded
    /\ scb_file.readable
    /\ loaded' = [fn |-> "decrypt_scb_str",
                  r |-> decrypt_scb_str(scb_file.text, seed),
                  calls |-> <<>>]
    /\ UNCHANGED <<disk, lastRun, pc, locals, monitor, h, scb_file, seed,
                   origin, balio>>

ScbNext ==
    \/ GuessType
    \/ DecryptStr

ScbSpec == ScbInit /\ [][ScbNext]_vars

(* --------------- balance.rs: one balance check on any lists ------------ *)

\* list_channels and list_balances have returned any lists; the process
\* has not started
BalInit ==
    /\ stateFile = FileAbsent
    /\ ldk = NoLdk
    /\ lastRun = NoRun
    /\ pc = "idle"
    /\ state = StateNew
    /\ first_run = FALSE
    /\ scb = <<>>
    /\ idx = 1
    /\ connected_peers = {}
    /\ failed_peers = {}
    /\ sigint = FALSE
    /\ events = 0
    /\ tpc = [t \in Tasks |-> "unspawned"]
    /\ stopped = FALSE
    /\ waiter = "none"
    /\ joined = {}
    /\ h = HistoryNew
    /\ ScbUnused
    /\ snapshot = NoSnapshot
    /\ \E listed \in SUBSET ChanIds, lnb \in LnBalanceLists, pb \in SweepLists :
          lists = [channels |-> listed, lightning_balances |-> lnb,
                   pending |-> pb]

\* balance.rs 65-161: check_and_print_balances, and what the loop of
\* main.rs does with its value (main.rs 362)
CheckBalances ==
    /\ snapshot = NoSnapshot
    /\ LET value == check_and_print_balances(lists.channels,
                        lists.lightning_balances, lists.pending)
       IN snapshot' =
             [fn |-> "check_and_print_balances",
              claimable |-> Claimable(lists.channels,
                                      lists.lightning_balances, 1),
              pending_sweep |-> PendingSweep(lists.pending, 1),
              value |-> value,
              complete |-> LoopEnds(value)]
    /\ UNCHANGED <<disk, lastRun, pc, locals, monitor, h, scbio, lists>>

\* node_tasks/balance.rs 64-118: the body of the balance task
TaskBalances ==
    /\ snapshot = NoSnapshot
    /\ LET value == task_balance_sum(lists.channels,
                        lists.lightning_balances, lists.pending)
       IN snapshot' =
             [fn |-> "spawn_balance_task",
              claimable |-> Claimable(lists.channels,
                                      lists.lightning_balances, 1),
              pending_sweep |-> PendingSweep(lists.pending, 1),
              value |-> value,
              complete |-> TaskSignals(value)]
    /\ UNCHANGED <<disk, lastRun, pc, locals, monitor, h, scbio, lists>>

BalNext ==
    \/ CheckBalances
    \/ TaskBalances

BalSpec == BalInit /\ [][BalNext]_vars

(* ------------------------------ claims --------------------------------- *)

Pairs == Peers \X ChanIds

\* the state recorded for (peer, channel) in a readable state file
Recorded(file, p, c) ==
    IF file.kind = "ok" THEN get_channel_state(file.by_peer, p, c) ELSE "None"

\* a step in which reset_recovery removes the state file
ResetStep == h'.didReset /\ (pc = "idle" \/ ~h.didReset)

\* C1, on the state file: without a reset, a recorded ForceCloseInitiated
\* stays, a recorded Pending stays or becomes ForceCloseInitiated, and an
\* unreadable file stays unreadable
C1_FileStep ==
    ~ResetStep =>
       /\ stateFile.kind = "corrupt" => stateFile'.kind = "corrupt"
       /\ stateFile'.kind # "absent" \/ stateFile.kind = "absent"
       /\ \A pr \in Pairs :
             stateFile'.kind = "ok" =>
                /\ Recorded(stateFile, pr[1], pr[2]) = "ForceCloseInitiated"
                      => Recorded(stateFile', pr[1], pr[2]) = "ForceCloseInitiated"
                /\ Recorded(stateFile, pr[1], pr[2]) = "Pending"
                      => Recorded(stateFile', pr[1], pr[2])
                            \in {"Pending", "ForceCloseInitiated"}

\* C1, on the state in memory while the process lives
C1_MemoryStep ==
    (~ResetStep /\ pc' # "idle") =>
       \A pr \in Pairs :
          /\ get_channel_state(state, pr[1], pr[2]) = "ForceCloseInitiated"
                => get_channel_state(state', pr[1], pr[2]) = "ForceCloseInitiated"
          /\ get_channel_state(state, pr[1], pr[2]) = "Pending"
                => get_channel_state(state', pr[1], pr[2])
                      \in {"Pending", "ForceCloseInitiated"}

C2_Mismatch ==
    [][(pc = "init" /\ ~is_empty(state)
          /\ get_all_channel_ids(state) # channel_ids(scb))
       => /\ pc' = "idle"
          /\ h'.exit \in {"err_mismatch", "crash"}
          /\ stateFile' = stateFile
          /\ ~h'.wrote
          /\ h'.nodeOps = {}]_vars

\* C2 witness: a run ended with the mismatch error, its loaded state {a}
\* against a backup of other channel ids
C2_Witness ==
    /\ h.exit = "err_mismatch"
    /\ stateFile.kind = "ok"
    /\ ~is_empty(stateFile.by_peer)
    /\ h.nodeOps = {}

\* C3: idempotent resume. When the process before ran the initialization
\* with the same backup and this process made no reset, this process makes
\* no restore_encoded_channel_monitors call.
C3_NoRestoreOnResume == h.resumed => h.restoreCalls = 0

\* C4: the first-run state is saved before any node-engine operation, and
\* when the process is killed after that save the state file it leaves is
\* readable and not empty, so the next run resumes.
C4_SavedBeforeNode ==
    /\ h.nodeOps # {} /\ h.restoreCalls > 0 => h.savedInit
    /\ h.savedInit /\ h.exit = "crash"
          => stateFile.kind = "ok" /\ ~is_empty(stateFile.by_peer)

\* the positions of run before its force-close step has acted
BeforeForceClose ==
    {"load", "prompt", "scb", "init", "build", "start", "sync0", "connect",
     "forceclose"}

\* a channel of the recovery state in memory is Pending
SomePending ==
    \E pr \in Pairs : get_channel_state(state, pr[1], pr[2]) = "Pending"

\* C5: force_close_all_channels_without_broadcasting_txn is invoked at most
\* once in a run, not before the force-close step, and in that step exactly
\* once when a channel of the state is Pending and not at all otherwise.
C5_ForceCloseOnce ==
    /\ h.fcCalls \in {0, 1}
    /\ pc \in BeforeForceClose => h.fcCalls = 0
    /\ pc = "save" => h.fcCalls = (IF SomePending THEN 1 ELSE 0)
    /\ h.fcCalls = 1 <=> "force_close" \in h.nodeOps

\* C5 witness: a resumed run invoked force-close once, a channel of its
\* loaded state being Pending
C5_Witness ==
    /\ pc = "save"
    /\ ~first_run
    /\ SomePending
    /\ h.fcCalls = 1

\* C6: the step that updates and saves the state after force-close makes
\* every backup channel that was Pending and whose peer was connected
\* ForceCloseInitiated, leaves every channel of a peer that was not
\* connected as it was, and writes exactly that state to the file.
C6_UpdateStep ==
    [][(pc = "save" /\ pc' = "monitor")
       => /\ stateFile' = FileOf(state')
          /\ \A i \in 1..Len(scb) :
                (scb[i].peer_id \in connected_peers
                 /\ get_channel_state(state, scb[i].peer_id, scb[i].channel_id)
                       = "Pending")
                => get_channel_state(state', scb[i].peer_id, scb[i].channel_id)
                      = "ForceCloseInitiated"
          /\ \A pr \in Pairs :
                pr[1] \notin connected_peers
                => get_channel_state(state', pr[1], pr[2])
                      = get_channel_state(state, pr[1], pr[2])]_vars

\* C6 witness: one peer connected and one not: the saved state has a
\* ForceCloseInitiated channel of the first and a Pending one of the second
C6_Witness ==
    /\ pc = "monitor"
    /\ \E i, j \in 1..Len(scb) :
          /\ scb[i].peer_id \in connected_peers
          /\ Recorded(stateFile, scb[i].peer_id, scb[i].channel_id)
                = "ForceCloseInitiated"
          /\ scb[j].peer_id \in failed_peers \ connected_peers
          /\ Recorded(stateFile, scb[j].peer_id, scb[j].channel_id) = "Pending"

\* the place of a peer's first channel in the backup
FirstChannel(b, peer) ==
    CHOOSE i \in 1..Len(b) :
       /\ b[i].peer_id = peer
       /\ \A j \in 1..(i - 1) : b[j].peer_id # peer

\* C7: node.connect is invoked at most once for each peer of the backup,
\* whether the attempt succeeded or failed, and in the order of the peers'
\* first appearance in the channel list.
C7_ConnectOncePerPeer ==
    \A i, j \in 1..Len(h.connectLog) :
       i < j =>
          /\ h.connectLog[i] # h.connectLog[j]
          /\ FirstChannel(scb, h.connectLog[i]) < FirstChannel(scb, h.connectLog[j])

\* the peers of the backup's channels
PeersOf(b) == {b[i].peer_id : i \in 1..Len(b)}

\* the positions of run after its connect loop
AfterConnect == {"forceclose", "save", "node_stop"} \cup LoopPcs

\* C8, the step: a node.connect that did not succeed leaves the run in its
\* connect loop, at the next channel, with the peer in failed_peers
C8_FailureStep ==
    (pc = "connect" /\ h'.connectLog # h.connectLog
       /\ scb[idx].peer_id \notin connected_peers')
    => /\ pc' = "connect"
       /\ h'.exit = "running"
       /\ idx' = idx + 1
       /\ scb' = scb
       /\ scb[idx].peer_id \in failed_peers'

\* C8, after the loop: a connection was attempted for every peer of the
\* backup, each is connected or failed, and the failed ones were printed
C8_AfterLoop ==
    pc \in AfterConnect =>
       /\ PeersOf(scb) = {h.connectLog[i] : i \in 1..Len(h.connectLog)}
       /\ PeersOf(scb) = connected_peers \cup failed_peers
       /\ h.reported = failed_peers

\* C8: a failed node.connect is not fatal: the peer is recorded as failed
\* and reported, every other peer of the backup is still tried, and the
\* run goes on to the force-close step and the monitoring phase.
C8_ConnectFailureNotFatal == [][C8_FailureStep]_vars /\ []C8_AfterLoop

\* C8 witness: a run in which one peer failed and another connected has
\* reached the monitoring phase
C8_Witness ==
    /\ pc = "monitor"
    /\ h.reported # {}
    /\ connected_peers \ failed_peers # {}

\* C9: a balance check that computes 0 signals stop, one that computes a
\* positive sum does not, and the balance check signals stop at most once
\* in a run (exactly once when a check computed 0): the loop of main.rs
\* ends, the balance task has raised the stop signal.
C9_CompletionDetection ==
    /\ h.balStops \in {0, 1}
    /\ h.balStops = 1 <=> h.lastSum = "zero"
    /\ h.lastSum = "zero" =>
          IF tpc["balance"] = "unspawned"
          THEN pc \in {"node_stop", "idle"}
          ELSE stopped /\ tpc["balance"] \in {"sleep", "exited"}

\* C9 witness: the balance task computed 0, signalled stop once and has
\* left its loop
C9_Witness ==
    /\ h.balStops = 1
    /\ stopped
    /\ tpc["balance"] = "exited"

\* C10: shutdown ordering. node.stop() is in progress or done only when no
\* periodic operation is executing: the loop of main.rs has ended, every
\* periodic task has left its loop; and PeriodicBlockingTask::wait has
\* returned only for tasks that left their loop.
C10_ShutdownOrdering ==
    /\ (pc = "node_stop" \/ "stop" \in h.nodeOps) =>
          /\ pc \notin {"balance", "sync", "sync_failed", "drain"}
          /\ \A t \in Tasks : tpc[t] \in {"unspawned", "exited"}
    /\ \A t \in joined : tpc[t] = "exited"

\* C10 witness: node.stop() is about to be called after the three tasks
\* ran and left their loops
C10_Witness ==
    /\ pc = "node_stop"
    /\ joined = Tasks
    /\ \A t \in Tasks : tpc[t] = "exited"

\* C11: the stop signal is a latch a blocking wait observes: once
\* StopHandle::stop() has been called the flag stays raised, and a
\* StopHandle::wait() that has begun, before or after that call, has been
\* notified and returns.
C11_StopLatch ==
    stopped /\ waiter # "none" => waiter = "woken"

\* C12: after an execution of its body a periodic task checks the stop
\* signal before it sleeps: with the signal raised when the body ends, the
\* task does not go to sleep for another period.
C12_CheckBeforeSleep ==
    [][\A t \in Tasks :
          (tpc[t] = "body" /\ tpc'[t] # "body" /\ stopped')
          => tpc'[t] # "sleep"]_vars

\* C13: once the stop signal has been raised no periodic task begins
\* another execution of its body, and a body in progress when the signal
\* is raised runs to completion.
C13_NoBodyAfterStop ==
    [][\A t \in Tasks :
          /\ (stopped /\ tpc[t] # "body") => tpc'[t] # "body"
          /\ tpc[t] = "body" => tpc'[t] \in {"body", "sleep"}]_vars

\* C14: one execution of the event drain acknowledges events until
\* next_event() returns none: when the drain of the loop of main.rs or
\* one body of the event-loop task ends, the node's event queue is empty.
C14_DrainEmptiesQueue ==
    [][(\/ pc = "drain" /\ pc' = "monitor"
        \/ tpc["event_loop"] = "body" /\ tpc'["event_loop"] = "sleep")
       => events' = 0]_vars

\* C15: a failing periodic sync_wallets is not fatal: the step that
\* handles the failure only logs it: the run stays in its monitoring loop
\* (the task in its loop, on to its sleep), no stop signal is raised and
\* nothing ends, so sync_wallets is invoked again at a later interval.
C15_SyncFailureNotFatal ==
    [][/\ (pc = "sync_failed" /\ pc' # pc)
          => /\ pc' = "drain"
             /\ h'.exit = "running"
             /\ sigint' = sigint
       /\ (tpc["wallet_sync"] = "failed" /\ tpc'["wallet_sync"] # "failed")
          => /\ tpc'["wallet_sync"] = "sleep"
             /\ h'.exit = "running"
             /\ stopped' = stopped
             /\ waiter' = waiter
             /\ pc' = pc]_vars

\* C15 witness: sync_wallets has failed again, having failed and been
\* logged at an earlier interval of the same run
C15_Witness ==
    /\ h.syncFailed
    /\ h.exit = "running"
    /\ pc = "sync_failed" \/ tpc["wallet_sync"] = "failed"

\* C16: from the start of the monitoring phase until the process ends, no
\* step (balance check, wallet sync, event drain, task, shutdown) changes
\* the recovery-state file, nor the recovery state in memory while the
\* process lives.
C16_MonitoringWritesNothing ==
    [][/\ stateFile' = stateFile
       /\ h'.exit = "running" => state' = state]_vars

\* C16 witness: a monitoring phase with a balance check and a failed sync
\* has ended with node.stop(), the file as the force-close step left it
C16_Witness ==
    /\ pc = "idle"
    /\ "stop" \in h.nodeOps
    /\ h.lastSum = "zero"
    /\ h.syncFailed
    /\ stateFile = FileOf(set_channel_state(StateNew, "p1", "a",
                                            "ForceCloseInitiated"))

\* C17: loading the recovery state. An absent state file is no error: the
\* run goes on with an empty state, as a first run. A state file that is
\* there and cannot be parsed ends the run with an error. Either way the
\* load leaves the file as it is and no node-engine operation has run.
C17_LoadState ==
    [][/\ (pc = "load" /\ h'.exit # "crash")
          => /\ stateFile' = stateFile
             /\ h'.nodeOps = {}
             /\ stateFile.kind = "absent"
                   => pc' = "scb" /\ state' = StateNew /\ h'.exit = "running"
             /\ stateFile.kind = "corrupt"
                   => pc' = "idle" /\ h'.exit = "err_load"
       /\ (pc = "scb" /\ pc' = "init" /\ stateFile.kind = "absent")
          => first_run']_vars

\* C17 witness: a run has ended in the load error, the unreadable file
\* still there
C17_Witness ==
    /\ pc = "idle"
    /\ h.exit = "err_load"
    /\ stateFile.kind = "corrupt"
    /\ h.nodeOps = {}

\* C18: when loading the static channel backup fails (an Err, or the
\* panic of scb.rs 131), the run ends at that step: the node engine was
\* not built, no node-engine operation was invoked, and the recovery-state
\* file was not written (the step leaves the file and the ldk directory as
\* they are, and the run made no save).
C18_ScbLoadFailure ==
    [][(h.exit = "running" /\ h'.exit \in {"err_scb", "panic_scb"})
       => /\ pc = "scb" /\ pc' = "idle"
          /\ stateFile' = stateFile
          /\ ldk' = ldk
          /\ h'.nodeOps = {}
          /\ ~h'.savedInit]_vars

\* C18 witness: a resumed run has ended in the backup-load error, the
\* state file of the run before still there
C18_Witness ==
    /\ pc = "idle"
    /\ h.exit = "err_scb"
    /\ h.nodeOps = {}
    /\ stateFile.kind = "ok"
    /\ ~is_empty(stateFile.by_peer)

\* C19: load_scb_guess_type tries the plaintext parse first; when it
\* succeeds its result is returned and load_scb_encrypted is not called;
\* the encrypted parse is tried only when the plaintext parse failed; when
\* both fail the error returned is the encrypted path's error with the
\* plaintext failure as the context wrapped around it.
C19_GuessType ==
    loaded.fn = "load_scb_guess_type" =>
       LET plain == load_scb(scb_file)
           enc == load_scb_encrypted(scb_file, seed)
           r == loaded.r
       IN /\ loaded.calls[1] = "load_scb"
          /\ plain.kind = "ok" => r = plain /\ loaded.calls = <<"load_scb">>
          /\ Len(loaded.calls) > 1 => plain.kind # "ok"
          /\ (plain.kind = "err" /\ enc.kind = "err")
                => /\ r.kind = "err"
                   /\ r.err = enc.err
                   /\ \E w \in {plain.err, plain.ctx[1]} :
                         r.ctx = <<w>> \o enc.ctx

\* C20: decrypt_scb_str on <nonce_hex>-<ciphertext_hex>. The text made by
\* encrypting s0 under the key of the seed phrase decodes to exactly s0;
\* with another seed phrase, another nonce or a changed ciphertext byte
\* decoding fails; a text that is not two dash-separated hex parts fails;
\* and whatever the text, a value is returned only when the text is the
\* encryption of that value under the user's key.
C20_DecryptRoundTrip ==
    loaded.fn = "decrypt_scb_str" =>
       LET r == loaded.r
           how == origin.how
       IN /\ (how = "authentic" /\ seed = origin.m0) => r = Ok(origin.s0)
          /\ (how = "authentic" /\ seed # origin.m0) => r.kind = "err"
          /\ how \in {"other_nonce", "tampered", "truncated"} => r.kind = "err"
          /\ how \in {"plain", "bad_hex", "odd_hex", "one_part", "three_parts"}
                => r.kind = "err"
          /\ how \in {"short_nonce", "long_nonce"} => r.kind # "ok"
          /\ r.kind = "ok" =>
                \E n \in Nonces :
                   scb_file.text =
                      EncryptedText(n, aead_encrypt(derive_scb_key(seed), n,
                                                    as_bytes(r.value)))

\* C20 witness: the encryption of a one-channel backup was decoded with
\* the seed phrase of its writer
C20_Witness ==
    /\ loaded.fn = "decrypt_scb_str"
    /\ origin.how = "authentic"
    /\ origin.s0 = <<"j", "0">>
    /\ seed = origin.m0
    /\ loaded.r = Ok(<<"j", "0">>)

\* C21: exit behaviour. A process that ended with a fatal error of run, of
\* the reset step or of the local-directory resolution exited with a
\* status other than 0, having printed an error that points to the log
\* file; a process exits with status 0 only after successful completion
\* or a graceful interrupt.
C21_ExitStatus ==
    (pc = "idle" /\ h.exit # "running") =>
       /\ h.exit \in FatalErrors =>
             /\ exit_status(h.exit) # 0
             /\ error_report(h.exit) = "see_log_file"
       /\ exit_status(h.exit) = 0 => h.exit = "ok"

\* C22, the reset: a reset that succeeds leaves no state file and no ldk
\* directory, and the state in memory empty
C22_ResetRemovesAll ==
    (ResetStep /\ h'.exit = "running") =>
       /\ stateFile' = FileAbsent
       /\ ldk' = NoLdk
       /\ pc = "prompt" => state' = StateNew

\* C22, every other step: no entry of the state file or of the state in
\* memory is removed, and the file is not removed
C22_NoOtherRemoval ==
    ~ResetStep =>
       /\ stateFile'.kind = "absent" => stateFile.kind = "absent"
       /\ \A pr \in Pairs :
             /\ (Recorded(stateFile, pr[1], pr[2]) # "None"
                   /\ stateFile'.kind = "ok")
                => Recorded(stateFile', pr[1], pr[2]) # "None"
             /\ (get_channel_state(state, pr[1], pr[2]) # "None"
                   /\ pc' # "idle")
                => get_channel_state(state', pr[1], pr[2]) # "None"

\* C22, after the reset: the run goes on with an empty state as a first
\* run; a run whose reset failed has ended without initialization and
\* without a node-engine operation
C22_AfterReset ==
    /\ (h.didReset /\ h.exit = "running") =>
          /\ pc \in {"load", "scb"} => is_empty(state)
          /\ pc = "load" => stateFile.kind = "absent"
          /\ pc \notin {"load", "scb"} => first_run
    /\ h.exit = "err_reset" =>
          /\ pc = "idle"
          /\ ~h.initDone
          /\ ~h.savedInit
          /\ h.nodeOps = {}

StopArose == sigint \/ stopped \/ h.lastSum = "zero"

\* the steps of the program in its monitoring phase: all but those of its
\* environment (Ctrl-C, the node queueing an event)
ProgramStep ==
    \/ LoopTop
    \/ BalanceCheck
    \/ WalletSync
    \/ SyncFailed
    \/ DrainOne
    \/ DrainDone
    \/ NodeStop
    \/ SpawnTasks
    \/ AwaitStop
    \/ StopWaitReturns
    \/ \E t \in Tasks : TaskBegin(t) \/ TaskEnd(t) \/ TaskFailed(t)
    \/ \E t \in Tasks : TaskWake(t) \/ JoinTask(t)

\* C23: termination of the monitoring phase. Once the stop condition has
\* arisen, the periodic operations leave their loops, the main flow
\* resumes and node.stop() is invoked; so until node.stop() has returned
\* the program is never left without a step to take.
C23_Termination ==
    (StopArose /\ h.exit = "running") => ENABLED ProgramStep

\* the sum of f over the indices in S
RECURSIVE SumOver(_, _)
SumOver(S, f) ==
    IF S = {} THEN 0
    ELSE LET i == CHOOSE x \in S : TRUE IN f[i] + SumOver(S \ {i}, f)

\* C24: balance snapshot. For any lists returned by list_channels and
\* list_balances, claimable is the sum of the amounts of exactly the
\* lightning balances whose channel id the node does not list,
\* pending_sweep is the sum of the amounts of all pending sweep balances,
\* and the value the check uses for completion is claimable +
\* pending_sweep: 0 when both lists contribute nothing, and the check
\* finds the recovery complete exactly when it is 0.
C24_BalanceSnapshot ==
    snapshot # NoSnapshot =>
       LET lnb == lists.lightning_balances
           pb == lists.pending
           unlisted == {i \in 1..Len(lnb) :
                           lnb[i].channel_id \notin lists.channels}
       IN /\ snapshot.claimable =
                SumOver(unlisted, [i \in 1..Len(lnb) |-> lnb[i].amount])
          /\ snapshot.pending_sweep = SumOver(1..Len(pb), pb)
          /\ snapshot.value = snapshot.claimable + snapshot.pending_sweep
          /\ (unlisted = {} /\ pb = <<>>) => snapshot.value = 0
          /\ snapshot.complete <=> snapshot.value = 0

\* C24 witness: of two lightning balances of 1 the node still lists the
\* channel of one; with a pending sweep of 1 the value is 2
C24_Witness ==
    /\ snapshot # NoSnapshot
    /\ Len(lists.lightning_balances) = 2
    /\ lists.lightning_balances[1].channel_id \in lists.channels
    /\ lists.lightning_balances[1].amount = 1
    /\ lists.lightning_balances[2].channel_id \notin lists.channels
    /\ lists.lightning_balances[2].amount = 1
    /\ lists.pending = <<1>>
    /\ snapshot.claimable = 1
    /\ snapshot.value = 2
    /\ ~snapshot.complete

\* C25: over any sequence of runs without reset, also when a run failed
\* or was killed after the first-run save and before the node was built,
\* force_close_all_channels_without_broadcasting_txn is invoked only on a
\* node into which the backup's encoded channel monitors were restored,
\* by this run or by an earlier one.
C25_ForceCloseOnRestoredNode ==
    "force_close" \in h.nodeOps => ldk.monitors

\* C26: over any sequence of runs, resets and failed resets, and for any
\* backup, a run that takes the first-run branch and so restores the
\* encoded channel monitors finds no ldk directory left by an earlier run.
C26_RestoreIntoFreshNode ==
    (pc = "build" /\ first_run) => ~ldk.exists

\* C27: an entry of the persisted recovery state becomes
\* ForceCloseInitiated only in a run that invoked
\* force_close_all_channels_without_broadcasting_txn and connected to the
\* entry's peer: a run that did not invoke force-close writes no entry as
\* ForceCloseInitiated that was not so when the run loaded the state.
C27_InitiatedOnlyAfterForceClose ==
    [][\A pr \in Pairs :
          (/\ Recorded(stateFile', pr[1], pr[2]) = "ForceCloseInitiated"
           /\ Recorded(stateFile, pr[1], pr[2]) # "ForceCloseInitiated")
          => /\ h.fcCalls = 1
             /\ pr[1] \in connected_peers]_vars

\* the (peer_id, channel_id) keys of a recovery state, and the pairs of a
\* backup's channel entries
KeysOf(s) == {pr \in Pairs : get_channel_state(s, pr[1], pr[2]) # "None"}
PairsOf(b) == {<<b[i].peer_id, b[i].channel_id>> : i \in 1..Len(b)}

\* C28: in every run that got past the mismatch check, for any backup the
\* check accepts, the (peer_id, channel_id) keys of the recovery state, in
\* memory and as saved, are the pairs of the backup's channel entries: no
\* step adds a key that is no backup entry or drops one.
C28_KeysAreBackupEntries ==
    (h.initDone /\ h.exit = "running") =>
       /\ KeysOf(state) = PairsOf(scb)
       /\ stateFile.kind = "ok" => KeysOf(stateFile.by_peer) = PairsOf(scb)

====
